---- MODULE Spec2Model ----
(***************************************************************************)
(* US labor dashboard: the Fetcher script (get_data.py) that turns one BLS *)
(* API response into labor_data.csv, and the Streamlit Dashboard (app.py)  *)
(* that loads the file through a process-wide cache and renders one page   *)
(* per script run.                                                         *)
(*                                                                         *)
(* Data representation                                                     *)
(*   raw value    a sequence of characters, as in the JSON ("158942", "-") *)
(*   number       an integer; NaN (missing) is -1, no parsed number is < 0 *)
(*   date string  [year, month] as written by f"{year}-{month}-01"         *)
(*   Timestamp    months since year 0 (year * 12 + month - 1)              *)
(*   DataFrame    [columns: set of column names other than date,           *)
(*                 rows: sequence of [index, date, cells]]                 *)
(*   csv file     [exists, columns, rows: sequence of [date, cells]] with  *)
(*                the date in ISO text <<year, month, day>>                *)
(***************************************************************************)
EXTENDS Integers, Sequences, FiniteSets, TLC

VARIABLES
    file,           \* labor_data.csv on disk
    fetcher_pc,     \* position of the Fetcher script: idle, fetched, cleaned
    fetch_result,   \* how the last Fetcher run ended
    api_response,   \* get_data.py: api_response (while the script runs)
    df_clean,       \* get_data.py: df_clean (while the script runs)
    cache,          \* st.cache_data entry of load_data
    time_range,     \* session state of the time range selectbox
    selected_series,\* session state of the series multiselect
    page            \* what the last script run of app.py put on the page

vars == <<file, fetcher_pc, fetch_result, api_response, df_clean,
          cache, time_range, selected_series, page>>

fetcher_vars == <<file, fetcher_pc, fetch_result, api_response, df_clean>>
dashboard_vars == <<cache, time_range, selected_series, page>>

---------------------------------------------------------------------------
(* Bounds of the model *)

\* months of complete data the API may hold in the pipeline specification
MaxMonths == 13
\* months of data in the responses given to the reshape step alone
MaxGridMonths == 3
\* observations of such a response that are absent or unparseable
MaxDefects == 2

---------------------------------------------------------------------------
(* get_data.py: constants *)

series_ids == <<"LNS14000000", "CES0000000001", "CES0500000003", "CES0500000007">>
start_year == 2022

series_names(series_id) ==
    CASE series_id = "LNS14000000" -> "Unemployment_Rate"
      [] series_id = "CES0000000001" -> "Total_Nonfarm_Employees"
      [] series_id = "CES0500000003" -> "Avg_Hourly_Earnings"
      [] series_id = "CES0500000007" -> "Avg_Weekly_Hours"
      [] OTHER -> series_id

\* the missing value; every parsed number is >= 0
NaN == -1

---------------------------------------------------------------------------
(* pandas conversions used by both scripts *)

DigitValue ==
    [c \in {"0", "1", "2", "3", "4", "5", "6", "7", "8", "9"} |->
        CASE c = "0" -> 0 [] c = "1" -> 1 [] c = "2" -> 2 [] c = "3" -> 3
          [] c = "4" -> 4 [] c = "5" -> 5 [] c = "6" -> 6 [] c = "7" -> 7
          [] c = "8" -> 8 [] c = "9" -> 9]

RECURSIVE ParseDigits(_, _)
ParseDigits(raw, acc) ==
    IF raw = <<>> THEN acc
    ELSE ParseDigits(Tail(raw), acc * 10 + DigitValue[Head(raw)])

\* pd.to_numeric(x, errors="coerce") on one value
to_numeric(raw) ==
    IF raw # <<>> /\ \A i \in 1..Len(raw) : raw[i] \in DOMAIN DigitValue
    THEN ParseDigits(raw, 0)
    ELSE NaN

\* pd.to_datetime accepts the text of a date only when its month exists
ValidDateStr(date_str) == date_str.month \in 1..12

\* pd.to_datetime on f"{year}-{month}-01"
to_datetime(date_str) == date_str.year * 12 + date_str.month - 1

\* a Timestamp as to_csv writes it
IsoDate(ts) == <<ts \div 12, (ts % 12) + 1, 1>>

\* pd.to_datetime on the ISO text of the csv file
ParseIsoDate(iso) == iso[1] * 12 + iso[2] - 1

---------------------------------------------------------------------------
(* get_data.py: fetch_bls_data *)

\* the outcome of fetch_bls_data on what the network gives back
fetch_bls_data(response) ==
    IF response.transport # "ok" THEN "network_error"        \* requests.post raises
    ELSE IF response.status_code # 200 THEN "transport_error"
    ELSE IF ~response.is_json THEN "malformed_json"          \* response.json() raises
    ELSE IF response.status # "REQUEST_SUCCEEDED" THEN "api_error"
    ELSE "ok"

---------------------------------------------------------------------------
(* get_data.py: clean_and_process_data *)

\* the inner loop over series["data"]
RECURSIVE SeriesObservations(_, _)
SeriesObservations(series_name, data) ==
    IF data = <<>> THEN <<>>
    ELSE LET item == Head(data)
             rest == SeriesObservations(series_name, Tail(data))
         IN IF item.period.marker = "M"
            THEN <<[date |-> [year |-> item.year, month |-> item.period.num],
                    series_name |-> series_name,
                    value |-> item.value]>> \o rest
            ELSE rest

\* the outer loop over api_response["Results"]["series"]
RECURSIVE AllData(_)
AllData(series) ==
    IF series = <<>> THEN <<>>
    ELSE SeriesObservations(series_names(Head(series).seriesID), Head(series).data)
         \o AllData(Tail(series))

\* df["date"] = pd.to_datetime(...); df["value"] = pd.to_numeric(..., "coerce")
ConvertLong(all_data) ==
    [i \in 1..Len(all_data) |->
        [date |-> to_datetime(all_data[i].date),
         series_name |-> all_data[i].series_name,
         value |-> to_numeric(all_data[i].value)]]

\* df.pivot raises when an (index, column) pair occurs twice
HasDuplicateEntries(long) ==
    \E i, j \in 1..Len(long) :
        i < j /\ long[i].date = long[j].date /\ long[i].series_name = long[j].series_name

RECURSIVE SortedSeq(_)
SortedSeq(S) ==
    IF S = {} THEN <<>>
    ELSE LET m == CHOOSE x \in S : \A y \in S : x <= y
         IN <<m>> \o SortedSeq(S \ {m})

\* faulty variant: pivot_table(..., fill_value=0) puts 0 where a series has no
\* observation
PivotFillingZero(long) ==
    LET dates == SortedSeq({long[i].date : i \in 1..Len(long)})
        names == {long[i].series_name : i \in 1..Len(long)}
        Cell(d, c) ==
            IF \E i \in 1..Len(long) : long[i].date = d /\ long[i].series_name = c
            THEN long[CHOOSE i \in 1..Len(long) :
                        long[i].date = d /\ long[i].series_name = c].value
            ELSE 0
    IN [columns |-> names,
        rows |-> [k \in 1..Len(dates) |->
                    [index |-> k - 1,
                     date |-> dates[k],
                     cells |-> [c \in names |-> Cell(dates[k], c)]]]]

\* df.pivot(index="date", columns="series_name", values="value").reset_index()
Pivot(long) ==
    LET dates == SortedSeq({long[i].date : i \in 1..Len(long)})
        names == {long[i].series_name : i \in 1..Len(long)}
        Cell(d, c) ==
            IF \E i \in 1..Len(long) : long[i].date = d /\ long[i].series_name = c
            THEN long[CHOOSE i \in 1..Len(long) :
                        long[i].date = d /\ long[i].series_name = c].value
            ELSE NaN
    IN [columns |-> names,
        rows |-> [k \in 1..Len(dates) |->
                    [index |-> k - 1,
                     date |-> dates[k],
                     cells |-> [c \in names |-> Cell(dates[k], c)]]]]

RECURSIVE InsertByDate(_, _, _)
InsertByDate(row, sorted, ascending) ==
    IF sorted = <<>> THEN <<row>>
    ELSE IF (ascending /\ row.date < Head(sorted).date)
            \/ (~ascending /\ row.date > Head(sorted).date)
         THEN <<row>> \o sorted
         ELSE <<Head(sorted)>> \o InsertByDate(row, Tail(sorted), ascending)

RECURSIVE SortRows(_, _)
SortRows(rows, ascending) ==
    IF rows = <<>> THEN <<>>
    ELSE InsertByDate(rows[Len(rows)], SortRows(SubSeq(rows, 1, Len(rows) - 1), ascending),
                      ascending)

\* df.sort_values("date", ascending=...)
sort_values(df, ascending) == [df EXCEPT !.rows = SortRows(df.rows, ascending)]

HasMissing(row) == \E c \in DOMAIN row.cells : row.cells[c] = NaN

\* faulty variant: df.dropna(how="all") drops only the rows with no value at all
DropnaHowAll(df) ==
    LET SomeValue(row) == \E c \in DOMAIN row.cells : row.cells[c] # NaN
    IN [df EXCEPT !.rows = SelectSeq(df.rows, SomeValue)]

\* df.dropna()
dropna(df) ==
    LET Complete(row) == ~HasMissing(row)
    IN [df EXCEPT !.rows = SelectSeq(df.rows, Complete)]

NoFrame == [columns |-> {}, rows |-> <<>>]

\* clean_and_process_data: the table it returns, or the error it raises
clean_and_process_data(response) ==
    IF ~response.has_results
    THEN [error |-> "KeyError", df |-> NoFrame]
    ELSE LET all_data == AllData(response.series)
         IN IF all_data = <<>>
            THEN [error |-> "KeyError", df |-> NoFrame]        \* df["date"] of an empty frame
            ELSE IF \E i \in 1..Len(all_data) : ~ValidDateStr(all_data[i].date)
            THEN [error |-> "ValueError", df |-> NoFrame]      \* pd.to_datetime
            ELSE LET long == ConvertLong(all_data)
                 IN IF HasDuplicateEntries(long)
                    THEN [error |-> "ValueError", df |-> NoFrame]   \* df.pivot
                    ELSE [error |-> "none",
                          df |-> dropna(sort_values(Pivot(long), TRUE))]

---------------------------------------------------------------------------
(* get_data.py: df_clean.to_csv("labor_data.csv", index=False) *)

NoFile == [exists |-> FALSE, columns |-> {}, rows |-> <<>>]

to_csv(df) ==
    [exists |-> TRUE,
     columns |-> df.columns,
     rows |-> [k \in 1..Len(df.rows) |->
                 [date |-> IsoDate(df.rows[k].date), cells |-> df.rows[k].cells]]]

---------------------------------------------------------------------------
(* What the BLS API can answer: the JSON of section "Results" as the       *)
(* public API lays it out, newest observation first                       *)

DigitChar == <<"0", "1", "2", "3", "4", "5", "6", "7", "8", "9">>

RECURSIVE Digits(_)
Digits(n) == IF n < 10 THEN <<DigitChar[n + 1]>>
             ELSE Digits(n \div 10) \o <<DigitChar[(n % 10) + 1]>>

\* the value the API publishes for series number si in month k of the range
Published(si, k) == si * 10 + ((k * k) % 7)

\* its text; the last series is published with a leading zero
PublishedText(si, k) ==
    IF si = Len(series_ids) THEN <<"0">> \o Digits(Published(si, k))
    ELSE Digits(Published(si, k))

MonthOf(k) == [year |-> start_year + ((k - 1) \div 12), num |-> ((k - 1) % 12) + 1]

Item(k, marker, text) ==
    [year |-> MonthOf(k).year,
     period |-> [marker |-> marker, num |-> MonthOf(k).num],
     value |-> text]

DefectKinds == {"absent", "dash"}

\* series["data"] of series si over months n..1; defects maps some <<si, k>> to a kind
RECURSIVE SeriesData(_, _, _)
SeriesData(si, n, defects) ==
    IF n = 0 THEN <<>>
    ELSE LET kind == IF <<si, n>> \in DOMAIN defects THEN defects[<<si, n>>] ELSE "ok"
             here == CASE kind = "absent" -> <<>>
                       [] kind = "dash" -> <<Item(n, "M", <<"-">>)>>
                       [] OTHER -> <<Item(n, "M", PublishedText(si, n))>>
         IN here \o SeriesData(si, n - 1, defects)

Extras == {"none", "quarterly", "annual_average", "repeated", "unknown_series"}

UnknownSeriesId == "CES9999999999"

\* Results.series of a response over n months
GridSeries(n, defects, extra) ==
    LET base == [si \in 1..Len(series_ids) |->
                    [seriesID |-> series_ids[si], data |-> SeriesData(si, n, defects)]]
        first == base[1]
    IN CASE extra = "quarterly" ->
              [base EXCEPT ![1] = [first EXCEPT !.data =
                  <<[year |-> start_year, period |-> [marker |-> "Q", num |-> 1],
                     value |-> <<"9">>]>> \o first.data]]
         [] extra = "annual_average" ->
              [base EXCEPT ![1] = [first EXCEPT !.data =
                  <<[year |-> start_year, period |-> [marker |-> "M", num |-> 13],
                     value |-> <<"9">>]>> \o first.data]]
         [] extra = "repeated" ->
              [base EXCEPT ![1] = [first EXCEPT !.data =
                  first.data \o <<Item(1, "M", <<"9">>)>>]]
         [] extra = "unknown_series" ->
              Append(base, [seriesID |-> UnknownSeriesId,
                            data |-> SeriesData(1, n, << >>)])
         [] OTHER -> base

Succeeded(series) ==
    [transport |-> "ok", status_code |-> 200, is_json |-> TRUE,
     status |-> "REQUEST_SUCCEEDED", has_results |-> TRUE, series |-> series]

NoResponse ==
    [transport |-> "none", status_code |-> 0, is_json |-> FALSE,
     status |-> "", has_results |-> FALSE, series |-> <<>>]

\* answers that make the run fail before or at the reshape step
FailingResponses ==
    { [Succeeded(<<>>) EXCEPT !.transport = "connection_error"],
      [Succeeded(<<>>) EXCEPT !.status_code = 500],
      [Succeeded(<<>>) EXCEPT !.is_json = FALSE],
      [Succeeded(<<>>) EXCEPT !.status = "REQUEST_NOT_PROCESSED", !.has_results = FALSE],
      [Succeeded(<<>>) EXCEPT !.has_results = FALSE],
      Succeeded(GridSeries(1, << >>, "annual_average")) }

Cells(n) == (1..Len(series_ids)) \X (1..n)

\* every way to make at most MaxDefects observations of an n-month response defective
DefectMaps(n) ==
    UNION { [D -> DefectKinds] : D \in {X \in SUBSET Cells(n) : Cardinality(X) <= MaxDefects} }

\* the responses given to the reshape step alone
Responses ==
    { Succeeded(GridSeries(n, d, e)) :
        <<n, d, e>> \in UNION { {n} \X DefectMaps(n) \X Extras : n \in 0..MaxGridMonths } }

\* the month counts of the responses the pipeline sees
FeedMonths == {1, 2, 7, MaxMonths}

\* the responses the pipeline sees
Feed ==
    { Succeeded(GridSeries(n, << >>, "none")) : n \in FeedMonths }
    \cup { Succeeded(GridSeries(1, (<<1, 1>> :> k), "none")) : k \in DefectKinds }
    \cup { Succeeded(GridSeries(2, (<<1, 2>> :> "dash"), "none")) }
    \cup FailingResponses

---------------------------------------------------------------------------
(* The Fetcher script, statement by statement (get_data.py lines 88-91)    *)

FetcherInit ==
    /\ file = NoFile
    /\ fetcher_pc = "idle"
    /\ fetch_result = "not_run"
    /\ api_response = NoResponse
    /\ df_clean = NoFrame

\* api_response = fetch_bls_data(series_ids, start_year, end_year)
Fetch(response) ==
    /\ fetcher_pc = "idle"
    /\ LET outcome == fetch_bls_data(response)
       IN IF outcome = "ok"
          THEN /\ api_response' = response
               /\ fetcher_pc' = "fetched"
               /\ fetch_result' = "running"
          ELSE /\ api_response' = NoResponse
               /\ fetcher_pc' = "idle"
               /\ fetch_result' = outcome
    /\ UNCHANGED <<file, df_clean>>
    /\ UNCHANGED dashboard_vars

\* faulty variant: the csv file is opened for writing before the reshape, so
\* a reshape error leaves an empty file behind
CleanTruncatingFile ==
    /\ fetcher_pc = "fetched"
    /\ LET got == clean_and_process_data(api_response)
       IN IF got.error = "none"
          THEN /\ df_clean' = got.df
               /\ fetcher_pc' = "cleaned"
               /\ UNCHANGED <<api_response, fetch_result, file>>
          ELSE /\ df_clean' = NoFrame
               /\ api_response' = NoResponse
               /\ fetcher_pc' = "idle"
               /\ fetch_result' = "reshape_error"
               /\ file' = to_csv(NoFrame)
    /\ UNCHANGED dashboard_vars

\* df_clean = clean_and_process_data(api_response)
Clean ==
    /\ fetcher_pc = "fetched"
    /\ LET got == clean_and_process_data(api_response)
       IN IF got.error = "none"
          THEN /\ df_clean' = got.df
               /\ fetcher_pc' = "cleaned"
               /\ UNCHANGED <<api_response, fetch_result>>
          ELSE /\ df_clean' = NoFrame
               /\ api_response' = NoResponse
               /\ fetcher_pc' = "idle"
               /\ fetch_result' = "reshape_error"
    /\ UNCHANGED file
    /\ UNCHANGED dashboard_vars

\* df_clean.to_csv("labor_data.csv", index=False), then the script ends
Write ==
    /\ fetcher_pc = "cleaned"
    /\ file' = to_csv(df_clean)
    /\ fetcher_pc' = "idle"
    /\ fetch_result' = "ok"
    /\ api_response' = NoResponse
    /\ df_clean' = NoFrame
    /\ UNCHANGED dashboard_vars

---------------------------------------------------------------------------
(* app.py: helpers *)

\* pd.read_csv("labor_data.csv"); df["date"] = pd.to_datetime(df["date"])
read_csv(f) ==
    [columns |-> f.columns,
     rows |-> [k \in 1..Len(f.rows) |->
                 [index |-> k - 1,
                  date |-> ParseIsoDate(f.rows[k].date),
                  cells |-> f.rows[k].cells]]]

NoCache == [loaded |-> FALSE, df |-> NoFrame]

\* faulty variant: load_data without @st.cache_data reads the file in every run
LoadDataUncached(c, f) ==
    IF ~f.exists THEN [how |-> "FileNotFoundError", df |-> NoFrame, cache |-> c]
    ELSE [how |-> "read", df |-> read_csv(f),
          cache |-> [loaded |-> TRUE, df |-> read_csv(f)]]

\* load_data under @st.cache_data: the stored result when there is one, else
\* the function body, whose result is stored unless it raises
load_data(c, f) ==
    IF c.loaded THEN [how |-> "cached", df |-> c.df, cache |-> c]
    ELSE IF ~f.exists THEN [how |-> "FileNotFoundError", df |-> NoFrame, cache |-> c]
    ELSE [how |-> "read", df |-> read_csv(f),
          cache |-> [loaded |-> TRUE, df |-> read_csv(f)]]

\* faulty variant: the guard is len(df) <= 2
CalculateChangeOffByOne(df, column_name) ==
    IF Len(df.rows) <= 2 THEN 0
    ELSE LET latest == df.rows[Len(df.rows)].cells[column_name]
             previous == df.rows[Len(df.rows) - 1].cells[column_name]
         IN latest - previous

calculate_change(df, column_name) ==
    IF Len(df.rows) < 2 THEN 0
    ELSE LET latest == df.rows[Len(df.rows)].cells[column_name]
             previous == df.rows[Len(df.rows) - 1].cells[column_name]
         IN latest - previous

\* the format specification format_value applies to a value
format_value(value, metric_type) ==
    CASE metric_type = "rate" ->
            [number |-> value, decimals |-> 1, grouping |-> FALSE, prefix |-> "", suffix |-> "%"]
      [] metric_type = "employees" ->
            [number |-> value, decimals |-> 0, grouping |-> TRUE, prefix |-> "", suffix |-> "K"]
      [] metric_type = "earnings" ->
            [number |-> value, decimals |-> 2, grouping |-> FALSE, prefix |-> "$", suffix |-> ""]
      [] metric_type = "hours" ->
            [number |-> value, decimals |-> 1, grouping |-> FALSE, prefix |-> "", suffix |-> ""]

\* the four st.metric cards of main, in the order of the script
Metrics ==
    << [column |-> "Unemployment_Rate", label |-> "Unemployment Rate",
        metric_type |-> "rate", delta_color |-> "inverse"],
       [column |-> "Total_Nonfarm_Employees", label |-> "Total Nonfarm Employees",
        metric_type |-> "employees", delta_color |-> "normal"],
       [column |-> "Avg_Hourly_Earnings", label |-> "Avg Hourly Earnings",
        metric_type |-> "earnings", delta_color |-> "normal"],
       [column |-> "Avg_Weekly_Hours", label |-> "Avg Weekly Hours",
        metric_type |-> "hours", delta_color |-> "normal"] >>

\* options of the multiselect
SeriesOptions ==
    <<"Unemployment_Rate", "Total_Nonfarm_Employees", "Avg_Hourly_Earnings", "Avg_Weekly_Hours">>

DefaultSeries == <<"Unemployment_Rate", "Total_Nonfarm_Employees">>

TimeRangeOptions == <<"Full Range", "Last 12 Months", "Last 6 Months">>

colors(series) ==
    CASE series = "Unemployment_Rate" -> "#FF6B6B"
      [] series = "Total_Nonfarm_Employees" -> "#4ECDC4"
      [] series = "Avg_Hourly_Earnings" -> "#45B7D1"
      [] series = "Avg_Weekly_Hours" -> "#FFA07A"

display_names(series) ==
    CASE series = "Unemployment_Rate" -> "Unemployment Rate (%)"
      [] series = "Total_Nonfarm_Employees" -> "Total Nonfarm Employees (thousands)"
      [] series = "Avg_Hourly_Earnings" -> "Avg Hourly Earnings ($)"
      [] series = "Avg_Weekly_Hours" -> "Avg Weekly Hours"

\* faulty variant: df.head(n) in place of df.tail(n)
Head_n(df, n) ==
    [df EXCEPT !.rows =
        IF Len(df.rows) <= n THEN df.rows ELSE SubSeq(df.rows, 1, n)]

\* df.tail(n)
tail(df, n) ==
    [df EXCEPT !.rows =
        IF Len(df.rows) <= n THEN df.rows
        ELSE SubSeq(df.rows, Len(df.rows) - n + 1, Len(df.rows))]

\* the time range filter of main
FilterByTimeRange(df, range) ==
    IF range = "Last 12 Months" THEN tail(df, 12)
    ELSE IF range = "Last 6 Months" THEN tail(df, 6)
    ELSE df

\* faulty variant: the loop runs over the options, not over the selection
AddTracesForAllOptions(df_filtered, selected) ==
    [i \in 1..Len(SeriesOptions) |->
        [x |-> [k \in 1..Len(df_filtered.rows) |-> df_filtered.rows[k].date],
         y |-> [k \in 1..Len(df_filtered.rows) |-> df_filtered.rows[k].cells[SeriesOptions[i]]],
         name |-> display_names(SeriesOptions[i]),
         color |-> colors(SeriesOptions[i]),
         mode |-> "lines+markers"]]

\* the loop that adds one go.Scatter per selected series
AddTraces(df_filtered, selected) ==
    [i \in 1..Len(selected) |->
        [x |-> [k \in 1..Len(df_filtered.rows) |-> df_filtered.rows[k].date],
         y |-> [k \in 1..Len(df_filtered.rows) |-> df_filtered.rows[k].cells[selected[i]]],
         name |-> display_names(selected[i]),
         color |-> colors(selected[i]),
         mode |-> "lines+markers"]]

---------------------------------------------------------------------------
(* app.py: main, one script run *)

\* a page with nothing on it
BlankPage ==
    [elements |-> <<>>, exception |-> "none", load |-> "none",
     cards |-> <<>>, df_filtered |-> NoFrame, traces |-> <<>>, raw_data |-> <<>>]

\* the exception that ends the run at the date range line or at card number k,
\* "none" when the run passes it
InfoException(df) ==
    IF Len(df.rows) = 0 THEN "ValueError" ELSE "none"      \* NaT.strftime

CardException(df, k) ==
    IF Metrics[k].column \notin df.columns THEN "KeyError"
    ELSE IF Len(df.rows) = 0 THEN "IndexError"             \* .iloc[-1]
    ELSE "none"

Card(df, k) ==
    LET m == Metrics[k]
    IN [label |-> m.label,
        value |-> format_value(df.rows[Len(df.rows)].cells[m.column], m.metric_type),
        delta |-> calculate_change(df, m.column),
        delta_color |-> m.delta_color]

\* the cards rendered before the first one that raises, and that exception
RECURSIVE CardsFrom(_, _)
CardsFrom(df, k) ==
    IF k > Len(Metrics) THEN [cards |-> <<>>, exception |-> "none"]
    ELSE IF CardException(df, k) # "none"
    THEN [cards |-> <<>>, exception |-> CardException(df, k)]
    ELSE LET rest == CardsFrom(df, k + 1)
         IN [cards |-> <<Card(df, k)>> \o rest.cards, exception |-> rest.exception]

\* faulty variant: st.stop() is missing, the run goes on to use df, which
\* was never assigned
OnFileNotFoundWithoutStop(p) ==
    [p EXCEPT !.elements = p.elements \o <<"error", "exception">>,
              !.load = "FileNotFoundError",
              !.exception = "UnboundLocalError"]

\* except FileNotFoundError: st.error(...); st.stop()
OnFileNotFound(p) ==
    [p EXCEPT !.elements = p.elements \o <<"error">>, !.load = "FileNotFoundError"]

\* main from the date range line to the footer, on the loaded table
RenderBody(p, df, range, selected) ==
    IF InfoException(df) # "none"
    THEN [p EXCEPT !.elements = p.elements \o <<"exception">>,
                   !.exception = InfoException(df)]
    ELSE LET got == CardsFrom(df, 1)
             withCards == [p EXCEPT !.elements = p.elements \o <<"info", "header">>
                                        \o [k \in 1..Len(got.cards) |-> "metric"],
                                    !.cards = got.cards]
         IN IF got.exception # "none"
            THEN [withCards EXCEPT !.elements = withCards.elements \o <<"exception">>,
                                   !.exception = got.exception]
            ELSE LET df_filtered == FilterByTimeRange(df, range)
                     chart == IF selected # <<>> THEN <<"plotly_chart">> ELSE <<"warning">>
                 IN [withCards EXCEPT
                        !.elements = withCards.elements
                            \o <<"divider", "header", "selectbox", "multiselect">>
                            \o chart \o <<"dataframe", "divider", "markdown">>,
                        !.df_filtered = df_filtered,
                        !.traces = IF selected # <<>> THEN AddTraces(df_filtered, selected)
                                   ELSE <<>>,
                        !.raw_data = sort_values(df_filtered, FALSE).rows]

\* main(): the page of one script run and the cache after it
main(c, f, range, selected) ==
    LET got == load_data(c, f)
        top == [BlankPage EXCEPT !.elements = <<"title", "markdown">>, !.load = got.how]
    IN [cache |-> got.cache,
        page |-> IF got.how = "FileNotFoundError" THEN OnFileNotFound(top)
                 ELSE RenderBody(top, got.df, range, selected)]

---------------------------------------------------------------------------
(* The Dashboard session: Streamlit runs main once when the page is opened  *)
(* and once more for every change of a widget that is on the page          *)

DashboardInit ==
    /\ cache = NoCache
    /\ time_range = TimeRangeOptions[1]
    /\ selected_series = DefaultSeries
    /\ page = BlankPage

ScriptRun(range, selected) ==
    /\ LET ran == main(cache, file, range, selected)
       IN /\ cache' = ran.cache
          /\ page' = ran.page
    /\ time_range' = range
    /\ selected_series' = selected
    /\ UNCHANGED fetcher_vars

Shown(widget) == \E i \in 1..Len(page.elements) : page.elements[i] = widget

\* the page is opened
FirstRun ==
    /\ page = BlankPage
    /\ ScriptRun(time_range, selected_series)

\* the user reruns the script without touching a widget
Rerun ==
    /\ page # BlankPage
    /\ ScriptRun(time_range, selected_series)

\* the user picks a time range
SelectTimeRange(range) ==
    /\ Shown("selectbox")
    /\ range # time_range
    /\ ScriptRun(range, selected_series)

\* the options in the order of the multiselect, keeping those in chosen (the
\* order in which the user picked them only permutes the traces)
InOptionOrder(chosen) ==
    LET Keep(s) == s \in chosen IN SelectSeq(SeriesOptions, Keep)

\* the user adds a series to the multiselect or removes one from it
ToggleSeries(series) ==
    /\ Shown("multiselect")
    /\ LET now == {selected_series[i] : i \in 1..Len(selected_series)}
       IN ScriptRun(time_range,
                    InOptionOrder(IF series \in now THEN now \ {series}
                                  ELSE now \cup {series}))

---------------------------------------------------------------------------
(* Specifications *)

Init == FetcherInit /\ DashboardInit

Next ==
    \/ \E response \in Feed : Fetch(response)
    \/ Clean
    \/ Write
    \/ FirstRun
    \/ Rerun
    \/ \E range \in {TimeRangeOptions[i] : i \in 1..Len(TimeRangeOptions)} :
          SelectTimeRange(range)
    \/ \E series \in {SeriesOptions[i] : i \in 1..Len(SeriesOptions)} :
          ToggleSeries(series)

Spec == Init /\ [][Next]_vars

\* the reshape step on its own: a response has just been fetched
InitReshape ==
    /\ file = NoFile
    /\ fetcher_pc = "fetched"
    /\ fetch_result = "running"
    /\ api_response \in Responses
    /\ df_clean = NoFrame
    /\ DashboardInit

NextReshape == Clean \/ Write

SpecReshape == InitReshape /\ [][NextReshape]_vars

---------------------------------------------------------------------------
(* Properties *)

IndicatorColumns ==
    {"Unemployment_Rate", "Total_Nonfarm_Employees", "Avg_Hourly_Earnings", "Avg_Weekly_Hours"}

FailureResults ==
    {"network_error", "transport_error", "malformed_json", "api_error", "reshape_error"}

\* C1: a Fetcher run that fails writes nothing. The file changes only in the
\* last statement of a run that succeeds, and every step that ends a run in
\* failure leaves the file exactly as it was before the step.
C1_FailedRunWritesNothing ==
    [][ /\ (file' # file => (fetcher_pc = "cleaned" /\ fetch_result' = "ok"))
        /\ (fetch_result' \in FailureResults => file' = file) ]_vars

\* a run has failed after an earlier run wrote a table with rows
C1_Witness ==
    /\ fetch_result = "reshape_error"
    /\ file.exists
    /\ Len(file.rows) > 0

\* C2: the table clean_and_process_data returns, and the file written from it,
\* has no missing value in any cell and strictly increasing (hence unique) dates.
C2_NoMissingIncreasingDates ==
    /\ fetcher_pc = "cleaned" =>
          /\ \A i \in 1..Len(df_clean.rows) :
                \A c \in DOMAIN df_clean.rows[i].cells : df_clean.rows[i].cells[c] # NaN
          /\ \A i \in 1..Len(df_clean.rows) : \A j \in 1..Len(df_clean.rows) :
                i < j => df_clean.rows[i].date < df_clean.rows[j].date
    /\ fetch_result = "ok" =>
          /\ \A i \in 1..Len(file.rows) :
                \A c \in DOMAIN file.rows[i].cells : file.rows[i].cells[c] # NaN
          /\ \A i \in 1..Len(file.rows) : \A j \in 1..Len(file.rows) :
                i < j => ParseIsoDate(file.rows[i].date) < ParseIsoDate(file.rows[j].date)

\* two months survive the reshape and the month between them was dropped
C2_Witness ==
    /\ fetcher_pc = "cleaned"
    /\ Len(df_clean.rows) = 2
    /\ df_clean.rows[1].index = 0
    /\ df_clean.rows[2].index = 2

\* C3: every row of the table the Fetcher persists has all four indicator
\* columns present and populated.
C3_AllFourColumnsPopulated ==
    fetch_result = "ok" =>
        \A i \in 1..Len(file.rows) : \A c \in IndicatorColumns :
            /\ c \in DOMAIN file.rows[i].cells
            /\ file.rows[i].cells[c] # NaN

\* the last row's value minus the row before it, 0 below two rows
ExpectedChange(rows, column) ==
    IF Len(rows) >= 2
    THEN rows[Len(rows)].cells[column] - rows[Len(rows) - 1].cells[column]
    ELSE 0

\* C4: calculate_change is the last row's value minus the second-to-last row's
\* value on a table of at least 2 rows and 0 on a table of fewer, for the
\* loaded table and every column it has, and so is the delta of every card.
C4_ChangeIsLastMinusPrevious ==
    /\ \A c \in cache.df.columns :
          calculate_change(cache.df, c) = ExpectedChange(cache.df.rows, c)
    /\ \A k \in 1..Len(page.cards) :
          page.cards[k].delta = ExpectedChange(cache.df.rows, Metrics[k].column)

\* four cards over a table of at least 2 rows, one of them with a negative delta
C4_Witness ==
    /\ Len(cache.df.rows) >= 2
    /\ Len(page.cards) = 4
    /\ \E k \in 1..Len(page.cards) : page.cards[k].delta < 0

\* C5: a script run over a loaded table of fewer than 2 rows (with its four
\* indicator columns) raises nothing and shows four cards, each with delta 0.
C5_FewRowsStillRenderCards ==
    ( /\ page.load \in {"read", "cached"}
      /\ IndicatorColumns \subseteq cache.df.columns
      /\ Len(cache.df.rows) < 2 )
    => /\ page.exception = "none"
       /\ Len(page.cards) = 4
       /\ \A k \in 1..Len(page.cards) : page.cards[k].delta = 0

\* the number of rows a time range keeps of a table of n rows
ExpectedCount(range, n) ==
    CASE range = "Last 12 Months" -> IF n < 12 THEN n ELSE 12
      [] range = "Last 6 Months" -> IF n < 6 THEN n ELSE 6
      [] OTHER -> n

\* C6: the filtered table of a script run is the suffix of the loaded table:
\* its last min(12, len) rows under "Last 12 Months", its last min(6, len)
\* rows under "Last 6 Months", the whole table under "Full Range", rows
\* unchanged and in order; "Full Range" is the range of the first run.
C6_FilterIsSuffix ==
    /\ page = BlankPage => time_range = "Full Range"
    /\ Shown("selectbox") =>
          LET T == cache.df.rows
              got == page.df_filtered.rows
              want == ExpectedCount(time_range, Len(T))
          IN /\ page.df_filtered.columns = cache.df.columns
             /\ Len(got) = want
             /\ \A i \in 1..want : got[i] = T[Len(T) - want + i]

\* "Last 12 Months" cuts a table of more than 12 rows down to 12
C6_Witness ==
    /\ Shown("selectbox")
    /\ time_range = "Last 12 Months"
    /\ Len(cache.df.rows) > 12
    /\ Len(page.df_filtered.rows) = 12

\* C7 as claimed: when the file is missing at load, the error message is the
\* only thing the script run puts on the page.
C7_OnlyTheErrorIsRendered ==
    page.load = "FileNotFoundError" =>
        /\ page.exception = "none"
        /\ \A i \in 1..Len(page.elements) : page.elements[i] = "error"

\* C7 as amended: when the file is missing at load, the script run shows the
\* title and the introduction it emits before loading, then the error message,
\* and stops: nothing after the load is rendered and no exception is raised.
C7_HaltsAfterTitleAndError ==
    page.load = "FileNotFoundError" =>
        /\ page.exception = "none"
        /\ page.elements = <<"title", "markdown", "error">>
        /\ page.cards = <<>>
        /\ page.traces = <<>>
        /\ page.raw_data = <<>>

\* a script run found no file
C7_Witness ==
    /\ page.load = "FileNotFoundError"
    /\ Shown("error")

ExpectedColor ==
    [s \in IndicatorColumns |->
        CASE s = "Unemployment_Rate" -> "#FF6B6B"
          [] s = "Total_Nonfarm_Employees" -> "#4ECDC4"
          [] s = "Avg_Hourly_Earnings" -> "#45B7D1"
          [] s = "Avg_Weekly_Hours" -> "#FFA07A"]

ExpectedLabel ==
    [s \in IndicatorColumns |->
        CASE s = "Unemployment_Rate" -> "Unemployment Rate (%)"
          [] s = "Total_Nonfarm_Employees" -> "Total Nonfarm Employees (thousands)"
          [] s = "Avg_Hourly_Earnings" -> "Avg Hourly Earnings ($)"
          [] s = "Avg_Weekly_Hours" -> "Avg Weekly Hours"]

\* C8: a script run that reaches the series selector raises nothing; with no
\* series selected it draws no chart and shows the prompt, otherwise the chart
\* has one trace per selected series, in order, with that series' colour,
\* label and values.
C8_OneTracePerSelectedSeries ==
    Shown("multiselect") =>
        /\ page.exception = "none"
        /\ selected_series = <<>> =>
              /\ ~Shown("plotly_chart")
              /\ Shown("warning")
              /\ page.traces = <<>>
        /\ selected_series # <<>> =>
              /\ Shown("plotly_chart")
              /\ ~Shown("warning")
              /\ Len(page.traces) = Len(selected_series)
              /\ \A i \in 1..Len(selected_series) :
                    /\ page.traces[i].color = ExpectedColor[selected_series[i]]
                    /\ page.traces[i].name = ExpectedLabel[selected_series[i]]
                    /\ page.traces[i].y =
                          [k \in 1..Len(page.df_filtered.rows) |->
                              page.df_filtered.rows[k].cells[selected_series[i]]]

\* all four series are selected and the chart has four traces
C8_Witness ==
    /\ Shown("plotly_chart")
    /\ Len(selected_series) = 4
    /\ Len(page.traces) = 4

\* C9 as claimed: a script run works on the table of the file as it is at
\* that run (the cached table is replaced once the file has changed).
C9_ReloadsWhenFileChanged ==
    [][ (page' # page /\ cache'.loaded) => cache'.df = read_csv(file') ]_vars

\* C9 as amended: after the first successful load every later script run
\* reuses that table without reading the file again, also when the file has
\* changed since: the cached table is never replaced within the process.
C9_LoadedOnceAndReused ==
    [][ cache.loaded => /\ cache' = cache
                        /\ (page' # page => page'.load = "cached") ]_vars

\* a script run served the cached table after the Fetcher overwrote the file
C9_Witness ==
    /\ page.load = "cached"
    /\ file.exists
    /\ cache.df # read_csv(file)

\* the numbers the API publishes
PublishedNumbers == 0..(10 * Len(series_ids) + 9)

\* the number a published text stands for, NaN when it stands for none
NumberOfText(text) ==
    IF \E v \in PublishedNumbers : text \in {Digits(v), <<"0">> \o Digits(v)}
    THEN CHOOSE v \in PublishedNumbers : text \in {Digits(v), <<"0">> \o Digits(v)}
    ELSE NaN

\* the monthly observations of a response, missing values included
MonthlyObservations(response) ==
    UNION { { [year |-> response.series[s].data[i].year,
               month |-> response.series[s].data[i].period.num,
               series |-> series_names(response.series[s].seriesID),
               value |-> NumberOfText(response.series[s].data[i].value)] :
              i \in { i \in 1..Len(response.series[s].data) :
                        response.series[s].data[i].period.marker = "M" } } :
            s \in 1..Len(response.series) }

NonMissingObservations(response) == {o \in MonthlyObservations(response) : o.value # NaN}

\* the wide table back in long form
Unpivot(df) ==
    UNION { { [year |-> df.rows[i].date \div 12,
               month |-> (df.rows[i].date % 12) + 1,
               series |-> c,
               value |-> df.rows[i].cells[c]] :
              c \in {c \in df.columns : df.rows[i].cells[c] # NaN} } :
            i \in 1..Len(df.rows) }

\* C10 as claimed: unpivoting the table clean_and_process_data returns gives
\* exactly the non-missing monthly observations of the response.
C10_RoundTripRecoversAll ==
    fetcher_pc = "cleaned" => Unpivot(df_clean) = NonMissingObservations(api_response)

\* C10 as amended: unpivoting the table gives exactly the non-missing monthly
\* observations of the months in which every series that has a monthly
\* observation in the response has a non-missing one; none is added.
C10_RoundTripRecoversCompleteMonths ==
    fetcher_pc = "cleaned" =>
        LET all == MonthlyObservations(api_response)
            kept == NonMissingObservations(api_response)
            names == {o.series : o \in all}
            Complete(o) ==
                \A n \in names : \E q \in kept :
                    q.year = o.year /\ q.month = o.month /\ q.series = n
        IN Unpivot(df_clean) = {o \in kept : Complete(o)}

\* a month was dropped as incomplete and another month was kept
C10_Witness ==
    /\ fetcher_pc = "cleaned"
    /\ Unpivot(df_clean) # {}
    /\ Unpivot(df_clean) # NonMissingObservations(api_response)

====
